---- MODULE Spec2Model ----
(***************************************************************************)
(* Model of the task service: app/db.py (engine, init_db, get_session),    *)
(* app/models.py (TaskBase, Task, TaskCreate) and app/main.py (on_startup, *)
(* pong, create_task).                                                     *)
(*                                                                         *)
(* The database file outlives the process: tables and rows persist across  *)
(* Restart, everything else is process-local.  Each POST /task/ request is *)
(* a coroutine that suspends at every await; its position is pc[r].        *)
(***************************************************************************)
EXTENDS Integers, FiniteSets, Sequences, TLC

\* ---------------------------------------------------------------- bounds
MaxRows == 3          \* rows the storage file may hold in a run
MaxBoots == 2         \* process starts in a run

Requests == {"r1", "r2"}          \* request slots that can be in flight together
Names == {"a", "b"}               \* task_name values a client sends
Descs == {"d"}                    \* task_description values a client sends

\* ------------------------------------------------------------- constants
NULL == "null"                    \* Python None / JSON null / field absent
NoId == 0                         \* Task.id before the INSERT assigns it
NoReq == "none"

DeclaredTables == {"task"}

\* ------------------------------------------------------------- variables
VARIABLES
  phase,      \* "starting" | "serving" | "failed": the process's lifespan
  boots,      \* number of process starts so far
  storageUp,  \* whether the storage file can be read and written right now
  tables,     \* tables present in database.db
  rows,       \* committed rows of table task
  lock,       \* the request whose connection holds the write transaction
  txn,        \* rows written in that transaction and not yet committed
  pc,         \* pc[r]: position of request r
  request,    \* request[r]: what the client sent
  sess,       \* sess[r]: "none" | "open" | "closed", the session of r
  task,       \* task[r]: the Task object of create_task
  resp        \* resp[r]: the response sent

vars == <<phase, boots, storageUp, tables, rows, lock, txn,
          pc, request, sess, task, resp>>

\* ----------------------------------------------------------- data model
NoTask == [id |-> NoId, task_name |-> NULL, task_description |-> NULL]

NoRequest == [path |-> "none", task_name |-> NULL, task_description |-> NULL]

NoResp == [status |-> 0, body |-> [detail |-> "none"]]

ValidationError == [status |-> 422, body |-> [detail |-> "field required"]]

ServerError == [status |-> 500, body |-> [detail |-> "Internal Server Error"]]

\* The bodies a client may POST: task_name present or missing, description
\* present or omitted.
PostBodies ==
  [path : {"/task/"}, task_name : Names \cup {NULL},
   task_description : Descs \cup {NULL}]

PingRequest == [path |-> "/ping", task_name |-> NULL, task_description |-> NULL]

\* TaskCreate(TaskBase): task_name: str is required, task_description optional.
TaskCreateValidLax(b) == TRUE

TaskCreateValid(b) == b.task_name # NULL

\* create_task line 21: Task(task_name=task.task_name).  Only task_name is
\* copied; task_description takes TaskBase's default None and id Field's None.
NewTaskEmptyDescription(b) ==
  [id |-> NoId, task_name |-> b.task_name, task_description |-> ""]

NewTask(b) ==
  [id |-> NoId, task_name |-> b.task_name, task_description |-> NULL]

Ids(rs) == {x.id : x \in rs}

Max(S) == IF S = {} THEN 0 ELSE CHOOSE m \in S : \A n \in S : n <= m

\* id: int = Field(default=None, primary_key=True): an INTEGER PRIMARY KEY
\* the database fills in at INSERT, one above the largest id it can see.
NextIdConstant(rs) == 1

NextId(rs) == Max(Ids(rs)) + 1

\* response_model=Task: the response body carries the Task's three fields.
Serialize(t) ==
  [id |-> t.id, task_name |-> t.task_name,
   task_description |-> t.task_description]

PongWithoutBang == [ping |-> "pong"]

pong == [ping |-> "pong!"]

\* ------------------------------------------------------ storage bootstrap
\* init_db: metadata.create_all inside engine.begin().  create_all checks
\* first: a declared table that exists is left alone, a missing one is
\* created empty.  The result says whether a statement raised.
create_all_no_checkfirst(db) ==
  IF DeclaredTables \cap db.tables # {}
    THEN [ok |-> FALSE, tables |-> db.tables, rows |-> db.rows]
    ELSE [ok |-> TRUE, tables |-> db.tables \cup DeclaredTables,
          rows |-> db.rows]

create_all_dropping(db) ==
  [ok |-> TRUE, tables |-> db.tables \cup DeclaredTables, rows |-> {}]

create_all(db) ==
  [ok |-> TRUE, tables |-> db.tables \cup DeclaredTables, rows |-> db.rows]

\* @app.on_event("startup"): requests are routed only once the startup hook
\* has returned; a hook that raises ends the process.
AcceptsTrafficEarly(ph) == ph # "failed"

AcceptsTraffic(ph) == ph = "serving"

\* COMMIT makes the transaction's writes durable.
CommitFailureKeepsWrites(rs, t, ok) == rs \cup t

Committed(rs, t, ok) == IF ok THEN rs \cup t ELSE rs

\* get_session: `async with async_session() as session` closes the session
\* when the generator is resumed after the yield, on return and on exception.
\* Closing rolls back whatever the connection had not committed.
SessionLeftOpen(s) == s

CloseSession(s) == "closed"

RolledBack(rs, t) == rs

InFlight == {r \in Requests : pc[r] \notin {"idle", "done"}}

\* ------------------------------------------------------------------ Init
Init ==
  /\ phase = "starting"
  /\ boots = 1
  /\ storageUp = TRUE
  /\ tables = {}
  /\ rows = {}
  /\ lock = NoReq
  /\ txn = {}
  /\ pc = [r \in Requests |-> "idle"]
  /\ request = [r \in Requests |-> NoRequest]
  /\ sess = [r \in Requests |-> "none"]
  /\ task = [r \in Requests |-> NoTask]
  /\ resp = [r \in Requests |-> NoResp]

\* ----------------------------------------------------------- environment
StorageFails ==
  /\ storageUp
  /\ storageUp' = FALSE
  /\ UNCHANGED <<phase, boots, tables, rows, lock, txn,
                 pc, request, sess, task, resp>>

StorageRecovers ==
  /\ ~storageUp
  /\ storageUp' = TRUE
  /\ UNCHANGED <<phase, boots, tables, rows, lock, txn,
                 pc, request, sess, task, resp>>

\* The process ends (all requests answered) and a new one starts on the same
\* database file.
Restart ==
  /\ phase \in {"serving", "failed"}
  /\ InFlight = {}
  /\ boots < MaxBoots
  /\ boots' = boots + 1
  /\ phase' = "starting"
  /\ pc' = [r \in Requests |-> "idle"]
  /\ request' = [r \in Requests |-> NoRequest]
  /\ sess' = [r \in Requests |-> "none"]
  /\ task' = [r \in Requests |-> NoTask]
  /\ resp' = [r \in Requests |-> NoResp]
  /\ UNCHANGED <<storageUp, tables, rows, lock, txn>>

\* --------------------------------------------------------------- startup
\* on_startup: await init_db().
OnStartup ==
  /\ phase = "starting"
  /\ LET res == create_all([tables |-> tables, rows |-> rows])
     IN IF storageUp /\ res.ok
          THEN /\ phase' = "serving"
               /\ tables' = res.tables
               /\ rows' = res.rows
          ELSE /\ phase' = "failed"
               /\ UNCHANGED <<tables, rows>>
  /\ UNCHANGED <<boots, storageUp, lock, txn, pc, request, sess, task, resp>>

\* ------------------------------------------------------------- GET /ping
Ping(r) ==
  /\ AcceptsTraffic(phase)
  /\ pc[r] = "idle"
  /\ request' = [request EXCEPT ![r] = PingRequest]
  /\ resp' = [resp EXCEPT ![r] = [status |-> 200, body |-> pong]]
  /\ pc' = [pc EXCEPT ![r] = "done"]
  /\ UNCHANGED <<phase, boots, storageUp, tables, rows, lock, txn, sess, task>>

\* ----------------------------------------------------------- POST /task/
\* The request arrives.  Rows are capped so that the run is finite.
Post(r, b) ==
  /\ AcceptsTraffic(phase)
  /\ pc[r] = "idle"
  /\ Cardinality(rows) + Cardinality(InFlight) < MaxRows
  /\ request' = [request EXCEPT ![r] = b]
  /\ pc' = [pc EXCEPT ![r] = "deps"]
  /\ UNCHANGED <<phase, boots, storageUp, tables, rows, lock, txn,
                 sess, task, resp>>

\* Depends(get_session): the generator runs to its yield.
GetSession(r) ==
  /\ pc[r] = "deps"
  /\ sess' = [sess EXCEPT ![r] = "open"]
  /\ pc' = [pc EXCEPT ![r] = "validate"]
  /\ UNCHANGED <<phase, boots, storageUp, tables, rows, lock, txn,
                 request, task, resp>>

\* task: TaskCreate: the body is validated; a failure is answered with 422
\* and create_task is not called.
Validate(r) ==
  /\ pc[r] = "validate"
  /\ IF TaskCreateValid(request[r])
       THEN /\ pc' = [pc EXCEPT ![r] = "body"]
            /\ UNCHANGED resp
       ELSE /\ pc' = [pc EXCEPT ![r] = "exit"]
            /\ resp' = [resp EXCEPT ![r] = ValidationError]
  /\ UNCHANGED <<phase, boots, storageUp, tables, rows, lock, txn,
                 request, sess, task>>

\* create_task lines 21-22: task = Task(...); session.add(task).
AddTask(r) ==
  /\ pc[r] = "body"
  /\ task' = [task EXCEPT ![r] = NewTask(request[r])]
  /\ pc' = [pc EXCEPT ![r] = "flush"]
  /\ UNCHANGED <<phase, boots, storageUp, tables, rows, lock, txn,
                 request, sess, resp>>

\* await session.commit(), first half: the flush.  The INSERT starts the
\* write transaction (one writer at a time: it waits for the lock), and the
\* database assigns the id.  A failing statement raises.
Flush(r) ==
  /\ pc[r] = "flush"
  /\ \/ /\ storageUp
        /\ lock = NoReq
        /\ LET t == [task[r] EXCEPT !.id = NextId(rows)]
           IN /\ task' = [task EXCEPT ![r] = t]
              /\ txn' = {t}
        /\ lock' = r
        /\ pc' = [pc EXCEPT ![r] = "commit"]
        /\ UNCHANGED resp
     \/ /\ ~storageUp
        /\ resp' = [resp EXCEPT ![r] = ServerError]
        /\ pc' = [pc EXCEPT ![r] = "exit"]
        /\ UNCHANGED <<task, txn, lock>>
  /\ UNCHANGED <<phase, boots, storageUp, tables, rows, request, sess>>

\* await session.commit(), second half: COMMIT.  On failure the exception
\* propagates; the transaction stays with the connection until the session
\* is closed.
Commit(r) ==
  /\ pc[r] = "commit"
  /\ lock = r
  /\ rows' = Committed(rows, txn, storageUp)
  /\ IF storageUp
       THEN /\ txn' = {}
            /\ lock' = NoReq
            /\ pc' = [pc EXCEPT ![r] = "refresh"]
            /\ UNCHANGED resp
       ELSE /\ resp' = [resp EXCEPT ![r] = ServerError]
            /\ pc' = [pc EXCEPT ![r] = "exit"]
            /\ UNCHANGED <<txn, lock>>
  /\ UNCHANGED <<phase, boots, storageUp, tables, request, sess, task>>

\* await session.refresh(task): SELECT the row by primary key and load it
\* into the object.
Refresh(r) ==
  /\ pc[r] = "refresh"
  /\ \/ /\ storageUp
        /\ \E x \in rows :
             /\ x.id = task[r].id
             /\ task' = [task EXCEPT ![r] = x]
        /\ pc' = [pc EXCEPT ![r] = "return"]
        /\ UNCHANGED resp
     \/ /\ ~storageUp
        /\ resp' = [resp EXCEPT ![r] = ServerError]
        /\ pc' = [pc EXCEPT ![r] = "exit"]
        /\ UNCHANGED task
  /\ UNCHANGED <<phase, boots, storageUp, tables, rows, lock, txn,
                 request, sess>>

\* return task, serialized through response_model=Task.
Return(r) ==
  /\ pc[r] = "return"
  /\ resp' = [resp EXCEPT ![r] = [status |-> 200, body |-> Serialize(task[r])]]
  /\ pc' = [pc EXCEPT ![r] = "exit"]
  /\ UNCHANGED <<phase, boots, storageUp, tables, rows, lock, txn,
                 request, sess, task>>

\* The dependency's exit: get_session resumes after its yield and the
\* `async with` block closes the session.
Release(r) ==
  /\ pc[r] = "exit"
  /\ sess' = [sess EXCEPT ![r] = CloseSession(sess[r])]
  /\ IF lock = r
       THEN /\ rows' = RolledBack(rows, txn)
            /\ txn' = {}
            /\ lock' = NoReq
       ELSE UNCHANGED <<rows, txn, lock>>
  /\ pc' = [pc EXCEPT ![r] = "done"]
  /\ UNCHANGED <<phase, boots, storageUp, tables, request, task, resp>>

\* The steps of request r once it has arrived.
Step(r) ==
  \/ GetSession(r)
  \/ Validate(r)
  \/ AddTask(r)
  \/ Flush(r)
  \/ Commit(r)
  \/ Refresh(r)
  \/ Return(r)
  \/ Release(r)

Next ==
  \/ StorageFails
  \/ StorageRecovers
  \/ Restart
  \/ OnStartup
  \/ \E r \in Requests : Ping(r)
  \/ \E r \in Requests : \E b \in PostBodies : Post(r, b)
  \/ \E r \in Requests : Step(r)

Spec == Init /\ [][Next]_vars

\* The event loop resumes every coroutine that is ready to run.
FairSpec == Spec /\ \A r \in Requests : WF_vars(Step(r))

\* ================================================================ claims
IsPost(r) == request[r].path = "/task/"

IsPing(r) == request[r].path = "/ping"

Succeeded(r) == IsPost(r) /\ resp[r].status = 200

\* C1: a POST /task/ that supplies task_name s and task_description d
\* answers with task_name s and task_description d (not null) and the
\* assigned id, and that row is stored.
C1_PostReturnsSuppliedDescription ==
  \A r \in Requests :
    (Succeeded(r) /\ request[r].task_description # NULL) =>
      /\ resp[r].body.task_name = request[r].task_name
      /\ resp[r].body.task_description = request[r].task_description
      /\ resp[r].body.id # NoId
      /\ resp[r].body \in rows

\* C2: a successful POST /task/ with {task_name: s} and no description adds
\* exactly one row: task_name s, task_description null, an id no stored row
\* had; no other step of the request changes the rows; the response carries
\* that row's id.
C2_PostWithoutDescriptionAddsOneRow ==
  /\ [](\A r \in Requests :
          (Succeeded(r) /\ request[r].task_description = NULL) =>
            /\ resp[r].body \in rows
            /\ resp[r].body.id = task[r].id
            /\ resp[r].body.id # NoId
            /\ resp[r].body.task_name = request[r].task_name
            /\ resp[r].body.task_description = NULL)
  /\ [][\A r \in Requests :
          (IsPost(r) /\ request[r].task_description = NULL
             /\ pc'[r] # pc[r]) =>
            IF pc[r] = "commit" /\ pc'[r] = "refresh"
              THEN \E x \in rows' :
                     /\ x \notin rows
                     /\ rows' = rows \cup {x}
                     /\ x.id \notin Ids(rows)
                     /\ x.id = task'[r].id
                     /\ x.task_name = request[r].task_name
                     /\ x.task_description = NULL
              ELSE rows' = rows]_vars

C2_Witness ==
  \E r \in Requests :
    /\ Succeeded(r)
    /\ request[r].task_description = NULL
    /\ pc[r] = "done"
    /\ Cardinality(rows) >= 2

\* C3: whatever the interleaving of two POST /task/ requests, no two stored
\* rows share an id, two requests that both succeeded got distinct ids and
\* both their rows are stored, the holder of the write transaction can
\* always move on, and a request fails only while the storage is failing.
C3_ConcurrentPostsGetDistinctIds ==
  /\ [](/\ \A x \in rows : \A y \in rows : x.id = y.id => x = y
        /\ \A r1 \in Requests : \A r2 \in Requests :
             (r1 # r2 /\ Succeeded(r1) /\ Succeeded(r2)) =>
               /\ resp[r1].body.id # resp[r2].body.id
               /\ resp[r1].body \in rows
               /\ resp[r2].body \in rows
        /\ lock # NoReq => pc[lock] \in {"commit", "exit"})
  /\ [][\A r \in Requests :
          (resp'[r].status = 500 /\ resp[r].status # 500) => ~storageUp]_vars

C3_Witness ==
  \E r1 \in Requests : \E r2 \in Requests :
    /\ r1 # r2
    /\ Succeeded(r1) /\ Succeeded(r2)
    /\ pc[r1] = "done" /\ pc[r2] = "done"
    /\ request[r1].task_name = request[r2].task_name
    /\ resp[r1].body.id # resp[r2].body.id

\* C4: a POST /task/ without task_name is answered 422, never reaches the
\* handler body, and none of its steps changes the stored rows or writes in
\* a transaction.
C4_MissingNameIs422AndWritesNothing ==
  /\ [](\A r \in Requests :
          (IsPost(r) /\ request[r].task_name = NULL) =>
            /\ pc[r] \in {"deps", "validate", "exit", "done"}
            /\ pc[r] \in {"exit", "done"} => resp[r].status = 422
            /\ task[r] = NoTask
            /\ lock # r)
  /\ [][\A r \in Requests :
          (request'[r].path = "/task/" /\ request'[r].task_name = NULL
             /\ pc'[r] # pc[r]) =>
            (rows' = rows /\ txn' = txn)]_vars

C4_Witness ==
  \E r \in Requests :
    /\ IsPost(r) /\ request[r].task_name = NULL
    /\ pc[r] = "done"
    /\ resp[r].status = 422
    /\ rows # {}

\* C5: when the commit of a POST /task/ fails (in the INSERT or in COMMIT)
\* the request is answered 500 and the stored rows are what they were: the
\* failing step changes no row, releasing the session changes no row and
\* discards the pending insert, and only a successful COMMIT ever changes
\* the rows.
C5_FailedCommitRetainsNothing ==
  [][\A r \in Requests :
       /\ (pc[r] \in {"flush", "commit"} /\ pc'[r] = "exit") =>
            (resp'[r].status = 500 /\ rows' = rows)
       /\ (pc[r] = "exit" /\ pc'[r] = "done") =>
            (rows' = rows /\ lock' # r /\ (lock = r => txn' = {}))
       /\ (pc'[r] # pc[r] /\ rows' # rows) =>
            (pc[r] = "commit" /\ pc'[r] = "refresh")]_vars

C5_Witness ==
  \E r \in Requests :
    /\ pc[r] = "done"
    /\ resp[r].status = 500
    /\ task[r].id # NoId
    /\ task[r].id \notin Ids(rows)
    /\ rows # {}

\* C6: every session get_session hands out is eventually closed, on normal
\* return, on a validation failure and on an exception of commit or
\* refresh; no request is done with its session open.
C6_SessionAlwaysReleased ==
  /\ \A r \in Requests : (sess[r] = "open") ~> (sess[r] = "closed")
  /\ [](\A r \in Requests : pc[r] = "done" => sess[r] # "open")

C6_Witness ==
  \E r1 \in Requests : \E r2 \in Requests :
    /\ pc[r1] = "done" /\ resp[r1].status = 500 /\ sess[r1] = "closed"
    /\ pc[r2] = "done" /\ resp[r2].status = 422 /\ sess[r2] = "closed"

\* C7: init_db is idempotent: run on its own result it does not raise and
\* changes nothing, and a startup that finds the table there (with or
\* without rows) succeeds whenever the storage is accessible and leaves
\* tables and rows as they were.
C7_InitDbIdempotent ==
  /\ [](LET db == [tables |-> tables, rows |-> rows]
            once == create_all(db)
            twice == create_all([tables |-> once.tables, rows |-> once.rows])
        IN /\ once.ok /\ twice.ok
           /\ twice = once
           /\ once.rows = rows)
  /\ [][(phase = "starting" /\ phase' # "starting") =>
          /\ rows' = rows
          /\ storageUp => phase' = "serving"
          /\ DeclaredTables \subseteq tables => tables' = tables]_vars

C7_Witness ==
  /\ boots >= 2
  /\ phase = "serving"
  /\ rows # {}

\* C8: a request is handled only in a process whose startup hook has run
\* init_db successfully (the table exists); the process starts serving only
\* from a startup with the storage accessible, and a process whose init_db
\* failed never serves.
C8_NoRequestBeforeInitDb ==
  /\ [](\A r \in Requests :
          pc[r] # "idle" =>
            (phase = "serving" /\ DeclaredTables \subseteq tables))
  /\ [][/\ (phase' = "serving" /\ phase # "serving") =>
             (phase = "starting" /\ storageUp
                /\ DeclaredTables \subseteq tables')
        /\ phase = "failed" =>
             (phase' = "failed" \/ (phase' = "starting" /\ boots' = boots + 1))
       ]_vars

C8_Witness ==
  /\ phase = "failed"
  /\ rows # {}

\* C9: GET /ping answers exactly {"ping": "pong!"} with 200 in every state
\* of a serving process, opens no session and changes nothing in storage.
C9_PingAlwaysPong ==
  /\ [](\A r \in Requests :
          /\ IsPing(r) =>
               /\ resp[r] = [status |-> 200, body |-> [ping |-> "pong!"]]
               /\ sess[r] = "none"
               /\ lock # r
          /\ (phase = "serving" /\ pc[r] = "idle") => ENABLED Ping(r))
  /\ [][\A r \in Requests :
          (request'[r].path = "/ping" /\ pc'[r] # pc[r]) =>
            UNCHANGED <<tables, rows, txn, lock, sess>>]_vars

C9_Witness ==
  \E r1 \in Requests : \E r2 \in Requests :
    /\ IsPing(r1) /\ pc[r1] = "done"
    /\ pc[r2] = "commit"
    /\ ~storageUp
    /\ rows # {}

\* C10: stored rows are never updated or deleted by startup, GET /ping or
\* POST /task/ (succeeding or failing), and every stored row has an id and
\* a task_name.
C10_RowsNeverChangeOrVanish ==
  /\ [][rows \subseteq rows']_vars
  /\ [](\A x \in rows : x.id # NoId /\ x.task_name # NULL)

C10_Witness ==
  /\ boots >= 2
  /\ phase = "serving"
  /\ Cardinality(rows) >= 2
  /\ \E r \in Requests : resp[r].status = 500
  /\ \E r \in Requests : IsPing(r)

====
